---------------------------- MODULE Spec2Model ----------------------------
(***************************************************************************)
(* A model of src/examples/BadOrderService.py: the class OrderService,     *)
(* its SQLite connection, and standard output.                             *)
(*                                                                         *)
(* Python values are tagged records [type, val]; a str is the sequence of  *)
(* its characters.  Amounts of money are exact decimals, held as integers  *)
(* in ten-thousandths (100 is 1000000), so that the factors 0.9, 0.95 and  *)
(* 0.8 and their products are exact; binary rounding of Python floats is   *)
(* not modelled.  The date column and the timestamp field are wall-clock   *)
(* readings that no operation reads back; they are left out.               *)
(*                                                                         *)
(* The connection is modelled by the committed rows of the orders table    *)
(* (db) and the rows inserted in the connection's open transaction         *)
(* (pending): execute (line 49) adds to pending, commit (line 53) moves    *)
(* pending to db.  Either call can raise; the code has no rollback.        *)
(***************************************************************************)
EXTENDS Integers, Sequences, FiniteSets

VARIABLES
    tableExists,  \* the orders table was created outside the file
    db,           \* committed rows of orders, in rowid order
    pending,      \* rows inserted by self.cursor, not yet committed
    out,          \* lines printed on standard output
    pc,           \* position of the single thread inside process_order
    req,          \* arguments of the process_order call in progress
    total,        \* the local variable total of process_order
    ret           \* outcome of the last finished call

vars == <<tableExists, db, pending, out, pc, req, total, ret>>

----------------------------------------------------------------------------
(* Bounds *)

MaxItems == 2      \* longest items list
MaxOrders == 2     \* rows (committed or pending) after which no order starts
MaxNameLen == 4    \* longest customer_name handed to is_premium_customer
WeightSpan == 2    \* weights range over 50 - WeightSpan .. 50 + WeightSpan

----------------------------------------------------------------------------
(* Python values *)

Str(s) == [type |-> "str", val |-> s]
Bytes(s) == [type |-> "bytes", val |-> s]
None == [type |-> "NoneType", val |-> <<>>]

\* bool(v) for the values used here: None and '' are falsy
Truthy(v) == v.type # "NoneType" /\ Len(v.val) > 0

premium == Str(<<"p", "r", "e", "m", "i", "u", "m">>)
regular == Str(<<"r", "e", "g", "u", "l", "a", "r">>)
wholesale == Str(<<"w", "h", "o", "l", "e", "s", "a", "l", "e">>)
Premium == Str(<<"P", "r", "e", "m", "i", "u", "m">>)
SAVE10 == Str(<<"S", "A", "V", "E", "1", "0">>)
SAVE20 == Str(<<"S", "A", "V", "E", "2", "0">>)
save10 == Str(<<"s", "a", "v", "e", "1", "0">>)
EmptyStr == Str(<<>>)
VIP123 == Str(<<"V", "I", "P", "1", "2", "3">>)
Bob == Str(<<"B", "o", "b">>)
BobMail == Str(<<"b", "@", "x">>)

\* a decimal amount n as ten-thousandths
Money(n) == n * 10000

\* total * 0.9, total * 0.95, total * 0.8: pct is the factor in hundredths
Times(t, pct) == (t * pct) \div 100

----------------------------------------------------------------------------
(* process_order, lines 28-46: the arithmetic *)

KeyErrorAt(items) ==
    IF \E i \in 1..Len(items) : {"price", "quantity"} \ DOMAIN items[i] # {}
    THEN CHOOSE i \in 1..Len(items) :
            /\ {"price", "quantity"} \ DOMAIN items[i] # {}
            /\ \A j \in 1..(i - 1) : {"price", "quantity"} \ DOMAIN items[j] = {}
    ELSE 0

\* lines 29-31: the loop, from item i on, with the running total t
RECURSIVE SumItems(_, _, _)
SumItems(items, i, t) ==
    IF i > Len(items) THEN t
    ELSE SumItems(items, i + 1, t + Money(items[i]["price"] * items[i]["quantity"]))

\* variant: the premium and regular factors exchanged
ApplyTypeDiscount_swapped(order_type, t) ==
    IF order_type = premium THEN Times(t, 95)
    ELSE IF order_type = regular THEN Times(t, 90)
    ELSE IF order_type = wholesale THEN Times(t, 80)
    ELSE t

\* lines 34-39
ApplyTypeDiscount(order_type, t) ==
    IF order_type = premium THEN Times(t, 90)
    ELSE IF order_type = regular THEN Times(t, 95)
    ELSE IF order_type = wholesale THEN Times(t, 80)
    ELSE t

\* variant: the code takes a flat amount off instead of a share
ApplyDiscountCode_flat(discount_code, t) ==
    IF Truthy(discount_code)
    THEN IF discount_code = SAVE10 THEN t - Money(10)
         ELSE IF discount_code = SAVE20 THEN t - Money(20)
         ELSE t
    ELSE t

\* variant: the code is compared without regard to case
ApplyDiscountCode_nocase(discount_code, t) ==
    IF Truthy(discount_code)
    THEN IF discount_code \in {SAVE10, save10} THEN Times(t, 90)
         ELSE IF discount_code = SAVE20 THEN Times(t, 80)
         ELSE t
    ELSE t

\* lines 42-46
ApplyDiscountCode(discount_code, t) ==
    IF Truthy(discount_code)
    THEN IF discount_code = SAVE10 THEN Times(t, 90)
         ELSE IF discount_code = SAVE20 THEN Times(t, 80)
         ELSE t
    ELSE t

----------------------------------------------------------------------------
(* Initial state: the constructor has opened the connection *)

NoReq == [order_type |-> None, customer_name |-> None, email |-> None,
          items |-> <<>>, discount_code |-> None]

NoRet == [op |-> "none", kind |-> "none", arg |-> None, val |-> None]

Init ==
    /\ tableExists \in BOOLEAN
    /\ db = <<>>
    /\ pending = <<>>
    /\ out = <<>>
    /\ pc = "idle"
    /\ req = NoReq
    /\ total = 0
    /\ ret = NoRet

----------------------------------------------------------------------------
(* Inputs *)

Prices == {-50, 50}
Quantities == {1, 2}

GoodItems == {[price |-> p, quantity |-> q] : p \in Prices, q \in Quantities}
BadItems == {[price |-> 50], [quantity |-> 1]}

RECURSIVE SeqsUpTo(_, _)
SeqsUpTo(S, n) ==
    IF n = 0 THEN {<<>>}
    ELSE LET shorter == SeqsUpTo(S, n - 1)
         IN  shorter \cup {Append(s, x) : s \in {r \in shorter : Len(r) = n - 1}, x \in S}

OrderTypes == {premium, regular, wholesale, Premium}
DiscountCodes == {None, EmptyStr, SAVE10, SAVE20, save10}
Customers == {VIP123, Bob}
Emails == {BobMail}
ItemLists == SeqsUpTo(GoodItems \cup BadItems, MaxItems)

\* the inputs of the specification that follows several orders
FewOrderTypes == {premium, Premium}
FewDiscountCodes == {None, SAVE10}
FewItemLists == {<<[price |-> 50, quantity |-> 2]>>,
                 <<[price |-> 50, quantity |-> 2], [price |-> 50]>>,
                 <<[quantity |-> 1], [price |-> 50, quantity |-> 2]>>}

NameChars == {"V", "I", "P", "v"}
Names == {Str(s) : s \in SeqsUpTo(NameChars, MaxNameLen)}
         \cup {Bytes(s) : s \in SeqsUpTo(NameChars, MaxNameLen)}
         \cup {None, VIP123, Bob, Str(<<"v", "i", "p", "1">>)}
FewNames == {VIP123, Bob, None}

ShippingThreshold == 50
HeavyRate == 2599   \* 25.99 in hundredths
LightRate == 999    \* 9.99 in hundredths

Weights == (ShippingThreshold - WeightSpan)..(ShippingThreshold + WeightSpan)
FewWeights == {ShippingThreshold, ShippingThreshold + 1}

OrderIds == 0..(MaxOrders + 1)
DirectTotals == {Money(100)}

----------------------------------------------------------------------------
(* process_order, lines 24-59, one action per statement group *)

Raise(op, exc) == [op |-> op, kind |-> "raise", arg |-> None, val |-> exc]
Return(op, arg, val) == [op |-> op, kind |-> "return", arg |-> arg, val |-> val]

\* line 24: the caller enters process_order with its five arguments
process_order_call(types, customers, emails, lists, codes, cap) ==
    /\ pc = "idle"
    /\ Len(db) + Len(pending) < cap   \* bound of the model, not of the code
    /\ \E order_type \in types, customer_name \in customers, email \in emails,
          items \in lists, discount_code \in codes :
          req' = [order_type |-> order_type, customer_name |-> customer_name,
                  email |-> email, items |-> items, discount_code |-> discount_code]
    /\ pc' = "total"
    /\ total' = 0
    /\ ret' = NoRet
    /\ UNCHANGED <<tableExists, db, pending, out>>

\* variant: the row is inserted before the items are summed
process_order_total_insertfirst ==
    /\ pc = "total"
    /\ IF KeyErrorAt(req.items) # 0
       THEN /\ pc' = "idle"
            /\ ret' = Raise("process_order", "KeyError")
            /\ req' = NoReq
            /\ total' = 0
            /\ pending' = Append(pending, [customer |-> req.customer_name,
                                           total |-> 0])
       ELSE /\ pc' = "execute"
            /\ total' = ApplyDiscountCode(req.discount_code,
                            ApplyTypeDiscount(req.order_type,
                                SumItems(req.items, 1, 0)))
            /\ UNCHANGED <<req, ret, pending>>
    /\ UNCHANGED <<tableExists, db, out>>

\* lines 28-46: sum the items, apply the type discount, apply the code
process_order_total ==
    /\ pc = "total"
    /\ IF KeyErrorAt(req.items) # 0
       THEN /\ pc' = "idle"
            /\ ret' = Raise("process_order", "KeyError")
            /\ req' = NoReq
            /\ total' = 0
       ELSE /\ pc' = "execute"
            /\ total' = ApplyDiscountCode(req.discount_code,
                            ApplyTypeDiscount(req.order_type,
                                SumItems(req.items, 1, 0)))
            /\ UNCHANGED <<req, ret>>
    /\ UNCHANGED <<tableExists, db, pending, out>>

\* variant: a failed insert is swallowed and the call goes on to the email
process_order_execute_swallow ==
    /\ pc = "execute"
    /\ \E ok \in {tableExists, FALSE} :
          IF ok
          THEN /\ pending' = Append(pending, [customer |-> req.customer_name,
                                              total |-> total])
               /\ pc' = "commit"
          ELSE /\ pc' = "email"
               /\ UNCHANGED pending
    /\ UNCHANGED <<tableExists, db, out, req, total, ret>>

\* lines 49-52: cursor.execute(INSERT); raises when the table is missing or
\* the database reports an error, and then inserts nothing
process_order_execute ==
    /\ pc = "execute"
    /\ \E ok \in {tableExists, FALSE} :
          IF ok
          THEN /\ pending' = Append(pending, [customer |-> req.customer_name,
                                              total |-> total])
               /\ pc' = "commit"
               /\ UNCHANGED <<req, total, ret>>
          ELSE /\ pc' = "idle"
               /\ ret' = Raise("process_order", "OperationalError")
               /\ req' = NoReq
               /\ total' = 0
               /\ UNCHANGED pending
    /\ UNCHANGED <<tableExists, db, out>>

\* line 53: db.commit(); when it raises, SQLite has either rolled the
\* transaction back (disk full, I/O error) or left it open (database locked)
process_order_commit ==
    /\ pc = "commit"
    /\ \E outcome \in {"ok", "rolled back", "left open"} :
          IF outcome = "ok"
          THEN /\ db' = db \o pending
               /\ pending' = <<>>
               /\ pc' = "email"
               /\ UNCHANGED <<req, total, ret>>
          ELSE /\ pending' = IF outcome = "rolled back" THEN <<>> ELSE pending
               /\ pc' = "idle"
               /\ ret' = Raise("process_order", "OperationalError")
               /\ req' = NoReq
               /\ total' = 0
               /\ UNCHANGED db
    /\ UNCHANGED <<tableExists, out>>

\* lines 61-64: print the line that stands for the email
EmailLine(email, t) == [to |-> email, total |-> t]

\* variant: the email carries the sum before the discounts
process_order_email_undiscounted ==
    /\ pc = "email"
    /\ out' = Append(out, EmailLine(req.email, SumItems(req.items, 1, 0)))
    /\ pc' = "format"
    /\ UNCHANGED <<tableExists, db, pending, req, total, ret>>

\* line 56: self.send_email(email, total)
process_order_email ==
    /\ pc = "email"
    /\ out' = Append(out, EmailLine(req.email, total))
    /\ pc' = "format"
    /\ UNCHANGED <<tableExists, db, pending, req, total, ret>>

\* lines 66-72: the JSON object of customer and total
FormatOrder(customer_name, t) == [customer |-> customer_name, total |-> t]

\* line 59: return self.format_order(customer_name, total)
process_order_return ==
    /\ pc = "format"
    /\ ret' = Return("process_order", None, FormatOrder(req.customer_name, total))
    /\ pc' = "idle"
    /\ req' = NoReq
    /\ total' = 0
    /\ UNCHANGED <<tableExists, db, pending, out>>

----------------------------------------------------------------------------
(* The other public methods, called when no process_order is running *)

\* lines 61-64, called directly
send_email(emails, totals) ==
    /\ pc = "idle"
    /\ Len(out) < MaxOrders   \* bound of the model, not of the code
    /\ \E email \in emails, t \in totals :
          /\ out' = Append(out, EmailLine(email, t))
          /\ ret' = Return("send_email", None, None)
    /\ UNCHANGED <<tableExists, db, pending, pc, req, total>>

\* lines 66-72, called directly
format_order(customers, totals) ==
    /\ pc = "idle"
    /\ \E customer_name \in customers, t \in totals :
          ret' = Return("format_order", None, FormatOrder(customer_name, t))
    /\ UNCHANGED <<tableExists, db, pending, out, pc, req, total>>

\* the rows the connection's own cursor sees, with their rowids
Visible == db \o pending

\* lines 74-77
get_order_by_id ==
    /\ pc = "idle"
    /\ \E order_id \in OrderIds, ok \in {tableExists, FALSE} :
          ret' = IF ~ok THEN Raise("get_order_by_id", "OperationalError")
                 ELSE IF order_id \in 1..Len(Visible)
                 THEN Return("get_order_by_id", None,
                             [id |-> order_id,
                              customer |-> Visible[order_id].customer,
                              total |-> Visible[order_id].total])
                 ELSE Return("get_order_by_id", None, None)
    /\ UNCHANGED <<tableExists, db, pending, out, pc, req, total>>

\* str.startswith
StartsWith(s, prefix) ==
    /\ Len(s) >= Len(prefix)
    /\ \A i \in 1..Len(prefix) : s[i] = prefix[i]

\* variant: no isinstance test
IsPremiumCustomer_untyped(customer_name) ==
    StartsWith(customer_name.val, <<"V", "I", "P">>)

\* lines 79-84
IsPremiumCustomer(customer_name) ==
    IF customer_name.type = "str"
    THEN StartsWith(customer_name.val, <<"V", "I", "P">>)
    ELSE FALSE

is_premium_customer(names) ==
    /\ pc = "idle"
    /\ \E customer_name \in names :
          ret' = Return("is_premium_customer", customer_name,
                        IsPremiumCustomer(customer_name))
    /\ UNCHANGED <<tableExists, db, pending, out, pc, req, total>>

\* variant: the threshold itself counts as heavy
CalculateShipping_inclusive(weight) ==
    IF weight >= ShippingThreshold THEN HeavyRate ELSE LightRate

\* lines 92-95
CalculateShipping(weight) ==
    IF weight > ShippingThreshold THEN HeavyRate ELSE LightRate

calculate_shipping(weights) ==
    /\ pc = "idle"
    /\ \E weight \in weights :
          ret' = Return("calculate_shipping", weight, CalculateShipping(weight))
    /\ UNCHANGED <<tableExists, db, pending, out, pc, req, total>>

----------------------------------------------------------------------------
(* Specifications *)

\* several orders in a row, few inputs each
Next ==
    \/ process_order_call(FewOrderTypes, Customers, Emails, FewItemLists,
                          FewDiscountCodes, MaxOrders)
    \/ process_order_total
    \/ process_order_execute
    \/ process_order_commit
    \/ process_order_email
    \/ process_order_return
    \/ send_email(Emails, DirectTotals)
    \/ format_order(Customers, DirectTotals)
    \/ get_order_by_id
    \/ is_premium_customer(FewNames)
    \/ calculate_shipping(FewWeights)

Spec == Init /\ [][Next]_vars

\* one order, every combination of inputs
NextPricing ==
    \/ process_order_call(OrderTypes, Customers, Emails, ItemLists,
                          DiscountCodes, 1)
    \/ process_order_total
    \/ process_order_execute
    \/ process_order_commit
    \/ process_order_email
    \/ process_order_return

SpecPricing == Init /\ [][NextPricing]_vars

\* the two predicates, every input
NextLookups ==
    \/ is_premium_customer(Names)
    \/ calculate_shipping(Weights)

SpecLookups == Init /\ [][NextLookups]_vars

----------------------------------------------------------------------------
(* Properties *)

\* the sum of price * quantity, in whole units
RECURSIVE PlainSum(_)
PlainSum(items) ==
    IF items = <<>> THEN 0
    ELSE Head(items).price * Head(items).quantity + PlainSum(Tail(items))

\* the positions of process_order at which total is final
Computed == pc \in {"execute", "commit", "email", "format"}

\* the share of the sum, in ten-thousandths, that an order type keeps
TierShare(order_type) ==
    IF order_type = premium THEN 9000
    ELSE IF order_type = regular THEN 9500
    ELSE IF order_type = wholesale THEN 8000
    ELSE 10000

\* the share of the total, in hundredths, that a discount code keeps
CodeShare(discount_code) ==
    IF discount_code = SAVE10 THEN 90
    ELSE IF discount_code = SAVE20 THEN 80
    ELSE 100

\* C1: with no discount code (None or '') the total is the sum of
\* price * quantity reduced by the order type alone: 90% for premium, 95% for
\* regular, 80% for wholesale; a premium order totaling 100 yields 90.
C1_TierDiscountWithoutCode ==
    (Computed /\ req.discount_code \in {None, EmptyStr}) =>
        /\ req.order_type = premium => total = PlainSum(req.items) * 9000
        /\ req.order_type = regular => total = PlainSum(req.items) * 9500
        /\ req.order_type = wholesale => total = PlainSum(req.items) * 8000
        /\ (req.order_type = premium /\ PlainSum(req.items) = 100) => total = 900000

C1_Witness ==
    /\ pc = "format"
    /\ req.order_type = premium
    /\ req.discount_code = None
    /\ PlainSum(req.items) = 100
    /\ total = 900000

\* C2: a discount code multiplies the total already reduced by the order
\* type (SAVE10 keeps 90% of it, SAVE20 keeps 80% of it) and is not a
\* percentage of the undiscounted sum: regular, 100, SAVE10 yields 85.5 and
\* wholesale, 100, SAVE20 yields 64.
C2_CodeMultipliesTierTotal ==
    Computed =>
        /\ req.discount_code = SAVE10 =>
              /\ total * 100 = PlainSum(req.items) * TierShare(req.order_type) * 90
              /\ (TierShare(req.order_type) # 10000 /\ PlainSum(req.items) # 0) =>
                    total # PlainSum(req.items) * (TierShare(req.order_type) - 1000)
        /\ req.discount_code = SAVE20 =>
              /\ total * 100 = PlainSum(req.items) * TierShare(req.order_type) * 80
              /\ (TierShare(req.order_type) # 10000 /\ PlainSum(req.items) # 0) =>
                    total # PlainSum(req.items) * (TierShare(req.order_type) - 2000)
        /\ (req.order_type = regular /\ req.discount_code = SAVE10
                /\ PlainSum(req.items) = 100) => total = 855000
        /\ (req.order_type = wholesale /\ req.discount_code = SAVE20
                /\ PlainSum(req.items) = 100) => total = 640000

C2_Witness ==
    /\ pc = "format"
    /\ req.order_type = regular
    /\ req.discount_code = SAVE10
    /\ PlainSum(req.items) = 100
    /\ total = 855000

\* C3: calculate_shipping returns 25.99 exactly when weight > 50 and 9.99
\* for every weight <= 50; 50 gives 9.99 and 51 gives 25.99.
C3_ShippingBoundary ==
    ret.op = "calculate_shipping" =>
        /\ ret.kind = "return"
        /\ ret.val = 2599 <=> ret.arg > 50
        /\ ret.arg <= 50 => ret.val = 999
        /\ ret.arg = 50 => ret.val = 999
        /\ ret.arg = 51 => ret.val = 2599

C3_Witness ==
    /\ ret.op = "calculate_shipping"
    /\ ret.arg = 50
    /\ ret.val = 999

\* C4: is_premium_customer returns true exactly for a str that begins with
\* the case-sensitive prefix 'VIP', false for every other str, and false,
\* without raising, for every argument that is not a str.
C4_PremiumIffVipPrefix ==
    ret.op = "is_premium_customer" =>
        /\ ret.kind = "return"
        /\ ret.val \in BOOLEAN
        /\ ret.val <=> /\ ret.arg.type = "str"
                       /\ Len(ret.arg.val) >= 3
                       /\ SubSeq(ret.arg.val, 1, 3) = <<"V", "I", "P">>
        /\ ret.arg \in {Bob, EmptyStr, Str(<<"v", "i", "p", "1">>)} => ~ret.val
        /\ ret.arg = VIP123 => ret.val

C4_Witness ==
    /\ ret.op = "is_premium_customer"
    /\ ret.arg = Str(<<"V", "I", "P", "v">>)
    /\ ret.val = TRUE

\* C5: the total of every persisted Order record, and of every returned
\* formatted order, is non-negative.
C5_TotalNonNegative ==
    /\ \A i \in 1..Len(db) : db[i].total >= 0
    /\ (ret.op = "process_order" /\ ret.kind = "return") => ret.val.total >= 0

\* C6: the committed rows change only by a successful process_order, which
\* appends exactly one row and leaves the earlier rows as they were.
C6_OneRowPerOrder ==
    [][db' # db => /\ pc = "commit"
                   /\ Len(db') = Len(db) + 1
                   /\ SubSeq(db', 1, Len(db)) = db]_vars

\* C7: when the insert or the commit fails (database error, missing orders
\* table) process_order raises the error to its caller, prints no email
\* line and returns no formatted order.
C7_DatabaseErrorPropagates ==
    [][/\ (pc = "execute" /\ ~tableExists) => pc' = "idle"
       /\ (pc \in {"execute", "commit"} /\ pc' \notin {"commit", "email"}) =>
             /\ pc' = "idle"
             /\ ret' = [op |-> "process_order", kind |-> "raise",
                        arg |-> None, val |-> "OperationalError"]
             /\ out' = out
             /\ db' = db]_vars

C7_Witness ==
    /\ ret.op = "process_order"
    /\ ret.kind = "raise"
    /\ ret.val = "OperationalError"
    /\ Len(pending) = 1
    /\ out = <<>>

\* C8: a successful process_order commits the row, then prints the email
\* line, then returns, and the three carry the same total and customer.
C8_CommitThenEmailThenReturn ==
    [][/\ (pc # "idle" /\ db' # db) => (pc = "commit" /\ pc' = "email" /\ out' = out)
       /\ (pc # "idle" /\ out' # out) =>
             /\ pc = "email" /\ pc' = "format"
             /\ pending = <<>> /\ db # <<>> /\ db' = db
             /\ db[Len(db)] = [customer |-> req.customer_name, total |-> total]
             /\ out' = Append(out, [to |-> req.email, total |-> db[Len(db)].total])
       /\ (pc # "idle" /\ ret'.kind = "return") =>
             /\ pc = "format" /\ pc' = "idle"
             /\ db' = db /\ out' = out
             /\ out # <<>> /\ db # <<>>
             /\ ret'.op = "process_order"
             /\ ret'.val.total = db[Len(db)].total
             /\ ret'.val.total = out[Len(out)].total
             /\ ret'.val.customer = db[Len(db)].customer
       /\ pc = "format" => pc' = "idle" /\ ret'.kind = "return"]_vars

C8_Witness ==
    /\ ret.op = "process_order"
    /\ ret.kind = "return"
    /\ Len(db) = 2
    /\ db[2] = [customer |-> VIP123, total |-> 810000]
    /\ ret.val = [customer |-> VIP123, total |-> 810000]
    /\ out # <<>>
    /\ out[Len(out)] = [to |-> BobMail, total |-> 810000]

\* C9: an order type other than 'premium', 'regular', 'wholesale' and a
\* code other than 'SAVE10', 'SAVE20' reduce nothing and raise nothing: the
\* corresponding factor is 1, and the order goes on to be inserted.
C9_UnknownTokensKeepTotal ==
    [][/\ (pc = "total" /\ \A i \in 1..Len(req.items) :
                              DOMAIN req.items[i] = {"price", "quantity"}) =>
             /\ pc' = "execute"
             /\ req.order_type \notin {premium, regular, wholesale} =>
                   total' = PlainSum(req.items) * 100 * CodeShare(req.discount_code)
             /\ req.discount_code \notin {SAVE10, SAVE20} =>
                   total' = PlainSum(req.items) * TierShare(req.order_type)
             /\ (/\ req.order_type \notin {premium, regular, wholesale}
                 /\ req.discount_code \notin {SAVE10, SAVE20}) =>
                   total' = PlainSum(req.items) * 10000
       /\ pc \in {"execute", "commit", "email"} => total' \in {total, 0}]_vars

C9_Witness ==
    /\ pc = "format"
    /\ req.order_type = Premium
    /\ req.discount_code = save10
    /\ PlainSum(req.items) = 100
    /\ total = 1000000
    /\ db = <<[customer |-> req.customer_name, total |-> 1000000]>>
    /\ out = <<[to |-> req.email, total |-> 1000000]>>

\* C10: when an item lacks 'price' or 'quantity' process_order raises while
\* summing, before the insert: rows and output are as they were before the
\* call, however many well-formed items come first.
C10_MalformedItemChangesNothing ==
    [][(pc = "total" /\ \E i \in 1..Len(req.items) :
                           DOMAIN req.items[i] # {"price", "quantity"}) =>
          /\ pc' = "idle"
          /\ ret' = [op |-> "process_order", kind |-> "raise",
                     arg |-> None, val |-> "KeyError"]
          /\ db' = db
          /\ pending' = pending
          /\ out' = out]_vars

C10_Witness ==
    /\ ret.op = "process_order"
    /\ ret.kind = "raise"
    /\ ret.val = "KeyError"
    /\ Len(db) = 1
    /\ Len(out) = 1

=============================================================================
